---------------------------- MODULE Spec2Model ----------------------------
(***************************************************************************)
(* A model of cloudwatch_query.py: one run of main() against the remote    *)
(* log service.  Strings that the program parses (dates, times, paths) are *)
(* sequences of one-character strings; log-group names, field names, cell  *)
(* values and statuses, which the program only compares or copies, are     *)
(* plain strings.                                                          *)
(***************************************************************************)
EXTENDS Integers, Sequences, FiniteSets, TLC

VARIABLES
    pc,            \* position of main: "start", "submit", "poll", "sleep", "exited"
                   \* (and "save_call", "saved" where save_results is run alone)
    args,          \* argparse namespace: fecha_ini, hora_ini, fecha_fin, hora_fin, out
    now,           \* what datetime.now() returns in this run
    start_dt,      \* main's start_dt (NoDt until computed)
    end_dt,        \* main's end_dt (NoDt until computed)
    lg,            \* index in LOG_GROUPS of the group the loop is at
    salida_total,  \* main's aggregate: insertion-ordered dict, <<[key, val], ...>>
    qstate,        \* per group: the service's view of its query
    fetches,       \* get_query_results calls of the latest wait_results call
    sleeps,        \* time.sleep calls of the latest wait_results call
    resp,          \* the latest answer to get_query_results in that call
    outcome,       \* per group: how the try block of the loop ended
    started,       \* start_query calls issued, in order: <<[group, startTime, endTime], ...>>
    fs,            \* file system: path -> file content (NoFile when absent)
    stdout,        \* user-facing messages printed, as a set of tags
    exit_status    \* process exit status (-1 while running)

vars == <<pc, args, now, start_dt, end_dt, lg, salida_total, qstate, fetches,
          sleeps, resp, outcome, started, fs, stdout, exit_status>>

-----------------------------------------------------------------------------
(* Bounds of the model *)

\* most non-terminal responses the service gives for one query
MaxPolls == 2

-----------------------------------------------------------------------------
(* Text *)

Digits == {"0", "1", "2", "3", "4", "5", "6", "7", "8", "9"}

DigitVal(c) ==
    CASE c = "0" -> 0 [] c = "1" -> 1 [] c = "2" -> 2 [] c = "3" -> 3
      [] c = "4" -> 4 [] c = "5" -> 5 [] c = "6" -> 6 [] c = "7" -> 7
      [] c = "8" -> 8 [] c = "9" -> 9

\* the fields of s between occurrences of sep
RECURSIVE Split(_, _)
Split(s, sep) ==
    IF \A k \in 1..Len(s) : s[k] # sep
    THEN <<s>>
    ELSE LET k == CHOOSE k \in 1..Len(s) :
                      s[k] = sep /\ \A j \in 1..(k - 1) : s[j] # sep
         IN  <<SubSeq(s, 1, k - 1)>> \o Split(SubSeq(s, k + 1, Len(s)), sep)

IsDigits(f) == Len(f) > 0 /\ \A k \in 1..Len(f) : f[k] \in Digits

RECURSIVE ToInt(_)
ToInt(f) ==
    IF f = <<>> THEN 0
    ELSE ToInt(SubSeq(f, 1, Len(f) - 1)) * 10 + DigitVal(f[Len(f)])

\* a strptime directive of one or two digits with value in lo..hi
\* (%m, %d, %H, %M, %S: each accepts the one-digit and the zero-padded form)
MatchNum(f, lo, hi) ==
    IsDigits(f) /\ Len(f) \in {1, 2} /\ ToInt(f) >= lo /\ ToInt(f) <= hi

\* %Y: exactly four digits
MatchYear(f) == IsDigits(f) /\ Len(f) = 4

-----------------------------------------------------------------------------
(* datetime *)

IsLeap(y) == (y % 4 = 0 /\ y % 100 # 0) \/ y % 400 = 0

DaysInMonth(y, m) ==
    IF m = 2 THEN (IF IsLeap(y) THEN 29 ELSE 28)
    ELSE IF m \in {4, 6, 9, 11} THEN 30 ELSE 31

\* days from 1970-01-01 to the proleptic Gregorian date y-m-d
DaysFromCivil(y, m, d) ==
    LET yy  == IF m <= 2 THEN y - 1 ELSE y
        era == yy \div 400
        yoe == yy - era * 400
        mp  == IF m > 2 THEN m - 3 ELSE m + 9
        doy == (153 * mp + 2) \div 5 + d - 1
        doe == yoe * 365 + yoe \div 4 - yoe \div 100 + doy
    IN  era * 146097 + doe - 719468

\* a naive datetime: day number, second of the day, microsecond; ok = FALSE
\* stands for "no datetime" (a ValueError from the parser, or not yet computed)
NoDt == [ok |-> FALSE, days |-> 0, secs |-> 0, us |-> 0]

\* datetime.strptime(f"{date_str} {time_str}", "%Y-%m-%d %H:%M:%S")
\* (the inputs of the model hold no white space of their own)
parse_cli_time(date_str, time_str) ==
    LET joined == date_str \o <<" ">> \o time_str
        parts  == Split(joined, " ")
        d      == Split(parts[1], "-")
        t      == Split(parts[2], ":")
        y      == ToInt(d[1])
        m      == ToInt(d[2])
        dd     == ToInt(d[3])
        matches ==
            /\ Len(parts) = 2
            /\ Len(d) = 3 /\ MatchYear(d[1]) /\ MatchNum(d[2], 1, 12)
            /\ MatchNum(d[3], 1, 31)
            /\ Len(t) = 3 /\ MatchNum(t[1], 0, 23) /\ MatchNum(t[2], 0, 59)
            /\ MatchNum(t[3], 0, 61)
        \* the datetime constructor's own range checks
        valid ==
            /\ matches
            /\ y >= 1 /\ dd <= DaysInMonth(y, m) /\ ToInt(t[3]) <= 59
    IN  IF valid
        THEN [ok   |-> TRUE,
              days |-> DaysFromCivil(y, m, dd),
              secs |-> ToInt(t[1]) * 3600
                         + ToInt(t[2]) * 60 + ToInt(t[3]),
              us   |-> 0]
        ELSE NoDt

OffsetHours == 5

\* dt + timedelta(hours=h)
PlusHours(dt, h) ==
    LET s == dt.secs + h * 3600
    IN  [ok |-> dt.ok, days |-> dt.days + s \div 86400,
         secs |-> s % 86400, us |-> dt.us]

\* a >= b on datetimes
DtGeq(a, b) ==
    \/ a.days > b.days
    \/ a.days = b.days /\ a.secs > b.secs
    \/ a.days = b.days /\ a.secs = b.secs /\ a.us >= b.us

\* int(dt.replace(tzinfo=timezone.utc).timestamp()): whole seconds since
\* 1970-01-01, the microseconds dropped
to_epoch(dt) == dt.days * 86400 + dt.secs

-----------------------------------------------------------------------------
(* Configuration and the remote service *)

LOG_GROUPS == << "/aws/lambda/bm-qrec-api-redeban",
                 "/aws/lambda/bm-qrec-authorizer",
                 "/aws/lambda/bm-qrec-do-transaction" >>

Groups == 1..Len(LOG_GROUPS)

\* statuses get_query_results may report
TerminalStatuses == {"Complete", "Cancelled", "Failed", "Timeout"}
OtherStatuses == {"Scheduled", "Running", "Unknown"}

\* the handle the service gives the query of group g
QueryId(g) == <<"query", g>>

Cell(f, v) == [field |-> f, value |-> v]

\* raw result sets the service may return with Complete
RawSeq ==
    << <<>>,
       << <<Cell("@timestamp", "t1"), Cell("@message", "m1")>> >>,
       << <<Cell("@message", "m2")>>,
          <<Cell("@timestamp", "t2"), Cell("@ptr", "p2")>> >> >>

RawResults == {RawSeq[k] : k \in 1..Len(RawSeq)}

\* wait_results taking only Complete and Failed for final
WaitDecisionTwoFinal(status) ==
    IF status = "Complete" THEN "return"
    ELSE IF status = "Failed" THEN "raise"
    ELSE "sleep"

\* wait_results returning on every status but Running and Scheduled
WaitDecisionReturnsEarly(status) ==
    IF status \in {"Running", "Scheduled"} THEN "sleep"
    ELSE IF status \in {"Cancelled", "Failed", "Timeout"} THEN "raise"
    ELSE "return"

\* wait_results' reading of one response
WaitDecision(status) ==
    IF status = "Complete" THEN "return"
    ELSE IF status \in {"Cancelled", "Failed", "Timeout"} THEN "raise"
    ELSE "sleep"

\* the except clause of the loop: which exceptions it catches
Caught(exc) == exc = "ClientError"

\* {c["field"]: c["value"] for c in row}: a later cell replaces an earlier one
RowToDict(row) ==
    [f \in {row[k].field : k \in 1..Len(row)} |->
        LET last == CHOOSE k \in 1..Len(row) :
                        row[k].field = f
                        /\ \A j \in (k + 1)..Len(row) : row[j].field # f
        IN  row[last].value]

flatten(results) == [k \in 1..Len(results) |-> RowToDict(results[k])]

-----------------------------------------------------------------------------
(* dict, as an insertion-ordered sequence of [key, val] *)

DictKeys(d) == {d[k].key : k \in 1..Len(d)}

\* d[key] = val
DictSet(d, key, val) ==
    IF key \in DictKeys(d)
    THEN [k \in 1..Len(d) |-> IF d[k].key = key THEN [key |-> key, val |-> val]
                                ELSE d[k]]
    ELSE Append(d, [key |-> key, val |-> val])

DictGet(d, key) == d[CHOOSE k \in 1..Len(d) : d[k].key = key].val

-----------------------------------------------------------------------------
(* save_results *)

UpperCase == << "A", "B", "C", "D", "E", "F", "G", "H", "I", "J", "K", "L", "M",
                "N", "O", "P", "Q", "R", "S", "T", "U", "V", "W", "X", "Y", "Z" >>
LowerCase == << "a", "b", "c", "d", "e", "f", "g", "h", "i", "j", "k", "l", "m",
                "n", "o", "p", "q", "r", "s", "t", "u", "v", "w", "x", "y", "z" >>

\* the suffix taken as written
LowerNot(s) == s

\* str.lower
Lower(s) ==
    [k \in 1..Len(s) |->
        IF \E n \in 1..Len(UpperCase) : UpperCase[n] = s[k]
        THEN LowerCase[CHOOSE n \in 1..Len(UpperCase) : UpperCase[n] = s[k]]
        ELSE s[k]]

\* the final component of a path
PathName(path) ==
    LET parts == Split(path, "/") IN parts[Len(parts)]

\* pathlib's suffix: from the last dot of the name, unless that dot is the
\* first or the last character of the name
PathSuffix(path) ==
    LET name == PathName(path)
        dots == {k \in 1..Len(name) : name[k] = "."}
        last == CHOOSE k \in dots : \A j \in dots : j <= k
    IN  IF dots # {} /\ 1 < last /\ last < Len(name)
        THEN SubSeq(name, last, Len(name))
        ELSE <<>>

None == <<>>   \* an argument not given; like "", it is false where main tests it

OutJson == <<"a", ".", "j", "s", "o", "n">>
OutCsv == <<"r", ".", "c", "s", "v">>
OutTxt == <<"a", ".", "t", "x", "t">>

\* --out values of a run of main
Outs == {None, OutJson, OutCsv, OutTxt}

\* paths save_results is tried on
Paths ==
    { OutJson, OutCsv, OutTxt,
      <<"A", ".", "J", "S", "O", "N">>,
      <<"d", ".", "c", "s", "v", "/", "a">>,
      <<".", "j", "s", "o", "n">>,
      <<"b", ".", "t", "a", "r", ".", "C", "s", "v">>,
      <<"c", "s", "v", ".">> }

OldFile == [kind |-> "old", doc |-> <<>>, header |-> <<>>, records |-> <<>>]

\* file_path.suffix.lower() on the paths of the model, worked out once
SuffixLower == [p \in Paths |-> Lower(PathSuffix(p))]

DotJson == <<".", "j", "s", "o", "n">>
DotCsv == <<".", "c", "s", "v">>

NoFile == [kind |-> "none", doc |-> <<>>, header |-> <<>>, records |-> <<>>]

\* the field names of the model, in the code-point order sorted() gives them
FieldOrder == <<"@message", "@ptr", "@timestamp", "log_group">>

\* sorted(S) for a set S of field names
Sorted(S) == SelectSeq(FieldOrder, LAMBDA f : f \in S)

\* r with r["log_group"] = group
Tagged(r, group) ==
    [f \in DOMAIN r \cup {"log_group"} |-> IF f = "log_group" THEN group ELSE r[f]]

\* the tag put on the row itself, not on a copy
TagRowInPlace(r, group) ==
    [appended |-> Tagged(r, group), kept |-> Tagged(r, group)]

\* one turn of the inner loop on row r of a group: the row appended to all_rows
\* and the row the aggregate holds afterwards (the tag goes on a copy)
TagRow(r, group) == [appended |-> Tagged(r, group), kept |-> r]

\* all_rows: the tagged rows of every group, in dict order then row order
RECURSIVE AllRows(_)
AllRows(data) ==
    IF data = <<>> THEN <<>>
    ELSE [k \in 1..Len(data[1].val) |->
             TagRow(data[1].val[k], data[1].key).appended]
         \o AllRows(Tail(data))

\* the aggregate once the loop over its rows has run
DataAfterTagging(data) ==
    [g \in 1..Len(data) |->
        [key |-> data[g].key,
         val |-> [k \in 1..Len(data[g].val) |->
                     TagRow(data[g].val[k], data[g].key).kept]]]

\* csv.DictWriter: one cell per fieldname, "" where the row has no such key
CsvRecord(row, fieldnames) ==
    [k \in 1..Len(fieldnames) |->
        IF fieldnames[k] \in DOMAIN row THEN row[fieldnames[k]] ELSE ""]

\* save_results(data, file_path) on the file system files: the file system and
\* the aggregate afterwards, and what was printed
save_results(data, file_path, files) ==
    LET suffix == SuffixLower[file_path]
        all_rows == AllRows(data)
        fieldnames ==
            Sorted(UNION {DOMAIN all_rows[k] : k \in 1..Len(all_rows)})
    IN  IF suffix = DotJson
        THEN [fs   |-> [files EXCEPT ![file_path] =
                          [kind |-> "json", doc |-> data,
                           header |-> <<>>, records |-> <<>>]],
              data |-> data,
              said |-> "saved_json"]
        ELSE IF suffix = DotCsv
        THEN IF all_rows = <<>>
             THEN [fs |-> files, data |-> DataAfterTagging(data), said |-> "no_data_csv"]
             ELSE [fs   |-> [files EXCEPT ![file_path] =
                               [kind |-> "csv", doc |-> <<>>,
                                header |-> fieldnames,
                                records |->
                                  [k \in 1..Len(all_rows) |->
                                      CsvRecord(all_rows[k], fieldnames)]]],
                   data |-> DataAfterTagging(data),
                   said |-> "saved_csv"]
        ELSE [fs |-> files, data |-> data, said |-> "unsupported_extension"]

-----------------------------------------------------------------------------
(* Inputs of the model *)

Dates ==
    { <<"2", "0", "2", "5", "-", "0", "5", "-", "0", "7">>,
      <<"2", "0", "2", "5", "-", "0", "5", "-", "0", "8">>,
      <<"2", "0", "2", "5", "-", "0", "2", "-", "3", "0">> }

Times ==
    { <<"0", "7", ":", "1", "4">>,
      <<"0", "7", ":", "1", "4", ":", "0", "0">>,
      <<"2", "3", ":", "1", "1", ":", "3", "7">>,
      <<"2", "4", ":", "0", "0", ":", "0", "0">> }

\* readings of the clock: 2025-05-08 12:14:00 and half a second later
Nows ==
    { [ok |-> TRUE, days |-> DaysFromCivil(2025, 5, 8), secs |-> 44040, us |-> u] :
        u \in {0, 500000} }

ArgSets ==
    { [fecha_ini |-> a, hora_ini |-> b, fecha_fin |-> e[1], hora_fin |-> e[2],
       out |-> o] :
        a \in Dates, b \in Times,
        e \in {<<None, None>>} \cup (Dates \X ({None} \cup Times)),
        o \in Outs }

\* parse_cli_time on the dates and times of the model, worked out once
Parsed == [d \in Dates, t \in Times |-> parse_cli_time(d, t)]

NoOutcome == [kind |-> "none", returned |-> <<>>, about |-> <<>>]

NoResponse == [status |-> "none", results |-> <<>>]

InitialFiles == [p \in Paths |-> IF p = OutJson THEN OldFile ELSE NoFile]

Init ==
    /\ pc = "start"
    /\ args \in ArgSets
    /\ now \in Nows
    /\ start_dt = NoDt
    /\ end_dt = NoDt
    /\ lg = 0
    /\ salida_total = <<>>
    /\ qstate = [g \in Groups |-> "none"]
    /\ fetches = 0
    /\ sleeps = 0
    /\ outcome = [g \in Groups |-> NoOutcome]
    /\ started = <<>>
    /\ resp = NoResponse
    /\ fs = InitialFiles
    /\ stdout = {}
    /\ exit_status = -1

-----------------------------------------------------------------------------
(* main *)

Msg(tag, g) == [tag |-> tag, group |-> g]

\* the test written start_dt > end_dt
WindowRefusedIfLater(s, e) == DtGeq(s, e) /\ s # e

\* the test of line 163: the window is refused
WindowRefused(s, e) == DtGeq(s, e)

\* lines 150-170: the time window, or one of the two early exits
Begin ==
    /\ pc = "start"
    /\ LET s == Parsed[args.fecha_ini, args.hora_ini]
           withEnd == args.fecha_fin # None /\ args.hora_fin # None
           e == IF withEnd THEN Parsed[args.fecha_fin, args.hora_fin]
                ELSE NoDt
           sdt == PlusHours(s, OffsetHours)
           edt == IF withEnd THEN PlusHours(e, OffsetHours) ELSE now
       IN  IF ~s.ok \/ (withEnd /\ ~e.ok)
           THEN \* ValueError
                /\ start_dt' = IF s.ok THEN sdt ELSE NoDt
                /\ end_dt' = NoDt
                /\ stdout' = stdout \cup {Msg("bad_format", 0)}
                /\ pc' = "exited" /\ exit_status' = 1 /\ lg' = lg
           ELSE /\ start_dt' = sdt
                /\ end_dt' = edt
                /\ IF WindowRefused(sdt, edt)
                   THEN /\ stdout' = stdout \cup {Msg("bad_order", 0)}
                        /\ pc' = "exited" /\ exit_status' = 1 /\ lg' = lg
                   ELSE /\ stdout' = stdout \cup {Msg("running", 0)}
                        /\ pc' = "submit" /\ exit_status' = exit_status
                        /\ lg' = 1
    /\ UNCHANGED <<args, now, salida_total, qstate, fetches, sleeps, resp,
                   outcome, started, fs>>

\* the rest of main once the try statement of group lg is over, the aggregate
\* being data: the next group, or the optional save and the normal end
Continue(data, printed) ==
    IF lg < Len(LOG_GROUPS)
    THEN /\ pc' = "submit" /\ lg' = lg + 1
         /\ salida_total' = data
         /\ stdout' = stdout \cup printed
         /\ UNCHANGED <<fs, exit_status>>
    ELSE /\ pc' = "exited" /\ lg' = lg /\ exit_status' = 0
         /\ IF args.out # None
            THEN LET r == save_results(data, args.out, fs)
                 IN  /\ fs' = r.fs
                     /\ salida_total' = r.data
                     /\ stdout' = stdout \cup printed \cup {Msg(r.said, 0)}
            ELSE /\ fs' = fs
                 /\ salida_total' = data
                 /\ stdout' = stdout \cup printed

\* exception exc leaves the try block of group lg
Raised(exc) ==
    IF Caught(exc)
    THEN Continue(salida_total, {Msg("error", lg)})
    ELSE \* uncaught: traceback, exit status 1
         /\ pc' = "exited" /\ exit_status' = 1 /\ lg' = lg
         /\ stdout' = stdout \cup {Msg("traceback", lg)}
         /\ UNCHANGED <<salida_total, fs>>

StartCall(ok) ==
    [group |-> LOG_GROUPS[lg], startTime |-> to_epoch(start_dt),
     endTime |-> to_epoch(end_dt), accepted |-> ok]

\* line 175, the service accepting the query
StartQueryAccepted ==
    /\ pc = "submit"
    /\ started' = Append(started, StartCall(TRUE))
    /\ qstate' = [qstate EXCEPT ![lg] = "Scheduled"]
    /\ fetches' = 0 /\ sleeps' = 0 /\ resp' = NoResponse  \* wait_results is entered
    /\ pc' = "poll"
    /\ UNCHANGED <<args, now, start_dt, end_dt, lg, salida_total, outcome, fs,
                   stdout, exit_status>>

\* line 175, the service rejecting the query (ClientError)
StartQueryRejected ==
    /\ pc = "submit"
    /\ started' = Append(started, StartCall(FALSE))
    /\ qstate' = [qstate EXCEPT ![lg] = "rejected"]
    /\ outcome' = [outcome EXCEPT ![lg] =
                     [kind |-> "ClientError", returned |-> <<>>, about |-> <<>>]]
    /\ Raised("ClientError")
    /\ UNCHANGED <<args, now, start_dt, end_dt, fetches, sleeps, resp>>

\* one get_query_results call answered with a status (and rows), and what
\* wait_results and the loop body do with it
\* (pretty_print writes only to the console: its notice for no rows is kept)
FetchStatus ==
    /\ pc = "poll"
    /\ \E status \in TerminalStatuses \cup OtherStatuses, results \in RawResults :
        /\ status \in OtherStatuses => fetches < MaxPolls
        /\ status # "Complete" => results = <<>>
        /\ fetches' = fetches + 1
        /\ qstate' = [qstate EXCEPT ![lg] = status]
        /\ resp' = [status |-> status, results |-> results]
        /\ CASE WaitDecision(status) = "return" ->
                  LET rows == flatten(results)
                  IN  /\ outcome' = [outcome EXCEPT ![lg] =
                              [kind |-> "rows", returned |-> results,
                               about |-> <<>>]]
                      /\ Continue(DictSet(salida_total, LOG_GROUPS[lg], rows),
                                  IF rows = <<>> THEN {Msg("no_events", lg)} ELSE {})
             [] WaitDecision(status) = "raise" ->
                  /\ outcome' = [outcome EXCEPT ![lg] =
                          [kind |-> "RuntimeError", returned |-> <<>>,
                           about |-> <<QueryId(lg), status>>]]
                  /\ Raised("RuntimeError")
             [] OTHER ->
                  /\ pc' = "sleep"
                  /\ UNCHANGED <<lg, salida_total, outcome, fs, stdout, exit_status>>
    /\ UNCHANGED <<args, now, start_dt, end_dt, sleeps, started>>

\* one get_query_results call failing with a ClientError
FetchClientError ==
    /\ pc = "poll"
    /\ fetches' = fetches + 1
    /\ resp' = [status |-> "ClientError", results |-> <<>>]
    /\ outcome' = [outcome EXCEPT ![lg] =
                     [kind |-> "ClientError", returned |-> <<>>, about |-> <<>>]]
    /\ Raised("ClientError")
    /\ UNCHANGED <<args, now, start_dt, end_dt, qstate, sleeps, started>>

\* line 74
Sleep ==
    /\ pc = "sleep"
    /\ sleeps' = sleeps + 1
    /\ pc' = "poll"
    /\ UNCHANGED <<args, now, start_dt, end_dt, lg, salida_total, qstate,
                   fetches, resp, outcome, started, fs, stdout, exit_status>>

Next ==
    \/ Begin
    \/ StartQueryAccepted
    \/ StartQueryRejected
    \/ FetchStatus
    \/ FetchClientError
    \/ Sleep

Spec == Init /\ [][Next]_vars

\* runs with a start time in full, no end and the clock of Nows
LiveInit ==
    /\ Init
    /\ args.hora_ini = <<"0", "7", ":", "1", "4", ":", "0", "0">>
    /\ args.fecha_fin = None
    /\ args.out \in {None, OutJson, OutCsv}

\* main runs on while it can; the service answers every call
LiveSpec == LiveInit /\ [][Next]_vars /\ WF_vars(Next)

-----------------------------------------------------------------------------
(* save_results run alone, on every aggregate main can build *)

\* the aggregate main builds when group g contributes pick[g]: 0 for no
\* entry, k for the k-th raw result set
RECURSIVE Built(_, _)
Built(pick, g) ==
    IF g = 0 THEN <<>>
    ELSE IF pick[g] = 0 THEN Built(pick, g - 1)
    ELSE DictSet(Built(pick, g - 1), LOG_GROUPS[g], flatten(RawSeq[pick[g]]))

Aggregates == {Built(pick, Len(LOG_GROUPS)) : pick \in [Groups -> 0..Len(RawSeq)]}

SaveInit ==
    /\ pc = "save_call"
    /\ args \in {[fecha_ini |-> None, hora_ini |-> None, fecha_fin |-> None,
                  hora_fin |-> None, out |-> p] : p \in Paths}
    /\ now \in Nows
    /\ start_dt = NoDt
    /\ end_dt = NoDt
    /\ lg = 0
    /\ salida_total \in Aggregates
    /\ qstate = [g \in Groups |-> "none"]
    /\ fetches = 0
    /\ sleeps = 0
    /\ resp = NoResponse
    /\ outcome = [g \in Groups |-> NoOutcome]
    /\ started = <<>>
    /\ fs \in {[p \in Paths |-> NoFile], [p \in Paths |-> OldFile]}
    /\ stdout = {}
    /\ exit_status = -1

\* save_results(salida_total, Path(args.out))
SaveCall ==
    /\ pc = "save_call"
    /\ LET r == save_results(salida_total, args.out, fs)
       IN  /\ fs' = r.fs
           /\ salida_total' = r.data
           /\ stdout' = stdout \cup {Msg(r.said, 0)}
    /\ pc' = "saved"
    /\ UNCHANGED <<args, now, start_dt, end_dt, lg, qstate, fetches, sleeps,
                   resp, outcome, started, exit_status>>

SaveSpec == SaveInit /\ [][SaveCall]_vars

-----------------------------------------------------------------------------
(* Properties *)

FailureStatuses == {"Cancelled", "Failed", "Timeout"}

OpenStatuses == {"Scheduled", "Running", "Unknown"}

HasRows(data) == \E k \in 1..Len(data) : data[k].val # <<>>

\* C1: a query ending Cancelled, Failed or Timeout is handled by the loop's
\* handler: it is reported, its group adds nothing to the aggregate, every
\* later group is still processed, the save still happens and the run ends
\* with status zero.
C1_TerminalFailureHandled ==
    \A g \in Groups :
        qstate[g] \in FailureStatuses =>
            /\ Msg("error", g) \in stdout
            /\ LOG_GROUPS[g] \notin DictKeys(salida_total)
            /\ pc = "exited" =>
                /\ exit_status = 0
                /\ \A h \in Groups : h > g => qstate[h] # "none"
                /\ args.out = OutJson => fs[OutJson].kind = "json"

\* C2: whichever groups have their start_query rejected, every other group is
\* submitted and polled, each completed one is in the aggregate under its name
\* with its flattened rows, the rejected ones are not, and the run ends with
\* status zero.
C2_RejectedGroupsOnlyOmitted ==
    (pc = "exited" /\ \E g \in Groups : qstate[g] = "rejected") =>
        /\ exit_status = 0
        /\ \A g \in Groups :
            /\ qstate[g] # "none"
            /\ qstate[g] # "rejected" => outcome[g].kind # "none"
            /\ qstate[g] = "Complete" =>
                /\ LOG_GROUPS[g] \in DictKeys(salida_total)
                /\ DictGet(salida_total, LOG_GROUPS[g])
                       = flatten(outcome[g].returned)
            /\ qstate[g] = "rejected" =>
                LOG_GROUPS[g] \notin DictKeys(salida_total)

\* The same with no query of the run ending Cancelled, Failed or Timeout: the
\* rejected groups alone are left out and the run ends with status zero.
RejectedGroupsOmittedWhenNoQueryFails ==
    (\A g \in Groups : qstate[g] \notin FailureStatuses)
        => C2_RejectedGroupsOnlyOmitted

\* C3: when the start instant computed is not strictly before the end instant
\* computed, the run ends with a non-zero status, no start_query and no
\* get_query_results call has been issued and no file has been written,
\* whatever --out is.
C3_EmptyWindowRefused ==
    (start_dt.ok /\ end_dt.ok /\ DtGeq(start_dt, end_dt)) =>
        /\ pc = "exited" /\ exit_status > 0
        /\ started = <<>> /\ fetches = 0 /\ resp = NoResponse
        /\ fs = InitialFiles

C3_Witness ==
    /\ pc = "exited" /\ args.out = OutCsv
    /\ start_dt.ok /\ end_dt.ok /\ start_dt = end_dt
    /\ Msg("bad_order", 0) \in stdout

\* C4: within one wait_results call every non-terminal response is followed by
\* exactly one sleep and then the next fetch; the first terminal response ends
\* the call with no sleep and no fetch after it: Complete returns the rows of
\* that response, Cancelled, Failed and Timeout raise an error that names the
\* handle and the state.
C4_PollUntilTerminal ==
    /\ pc = "poll" =>
        /\ sleeps = fetches
        /\ resp.status \in OtherStatuses \cup {"none"}
    /\ pc = "sleep" =>
        /\ sleeps + 1 = fetches
        /\ resp.status \in OtherStatuses
    /\ resp.status \in TerminalStatuses =>
        /\ pc \in {"submit", "exited"}
        /\ sleeps + 1 = fetches
    /\ \A g \in Groups :
        /\ qstate[g] \in TerminalStatuses => ~(pc \in {"poll", "sleep"} /\ lg = g)
        /\ (qstate[g] = "Complete" /\ (lg = g \/ (lg = g + 1 /\ pc = "submit"))) =>
              /\ outcome[g].kind = "rows"
              /\ resp.status = "Complete"
              /\ outcome[g].returned = resp.results
        /\ qstate[g] \in FailureStatuses =>
              /\ outcome[g].kind = "RuntimeError"
              /\ outcome[g].about = <<QueryId(g), qstate[g]>>
              /\ resp.status = qstate[g]

C4_Witness ==
    /\ pc = "submit" /\ lg = 2
    /\ fetches = 3 /\ sleeps = 2
    /\ resp.status = "Complete" /\ Len(resp.results) = 2
    /\ outcome[1].returned = resp.results

\* C5 as stated: at no point are two queries of the run both submitted and not
\* yet terminal.
C5_AtMostOneOpenQuery ==
    Cardinality({g \in Groups : qstate[g] \in OpenStatuses}) <= 1

\* C5: groups are taken one at a time in LOG_GROUPS order: start_query for a
\* group is issued only once the group before it was rejected, was polled to a
\* terminal state, or had a get_query_results call fail with a ClientError; at
\* most one query is being polled, and a query left submitted and not terminal
\* behind the loop is one whose polling a ClientError ended.
C5_OneGroupAtATime ==
    /\ \A k \in 1..Len(started) : started[k].group = LOG_GROUPS[k]
    /\ Len(started) = (IF pc = "submit" THEN lg - 1 ELSE lg)
    /\ \A g \in Groups :
        /\ g > lg => qstate[g] = "none"
        /\ (g < lg \/ pc \in {"submit", "exited"}) /\ qstate[g] \in OpenStatuses
              => outcome[g].kind = "ClientError"
        /\ (g < lg \/ (g = lg /\ pc = "exited")) =>
              \/ qstate[g] = "rejected"
              \/ qstate[g] \in TerminalStatuses
              \/ outcome[g].kind = "ClientError"

C5_Witness ==
    /\ pc = "poll" /\ lg = 3
    /\ qstate[1] = "Complete" /\ qstate[2] = "rejected" /\ qstate[3] = "Running"

ValidDates ==
    { <<"2", "0", "2", "5", "-", "0", "5", "-", "0", "7">>,
      <<"2", "0", "2", "5", "-", "0", "5", "-", "0", "8">> }

HourMinute == <<"0", "7", ":", "1", "4">>

\* C6: a start time given as HH:MM with a valid date is accepted: main does
\* not take the bad-format exit and goes on to the start < end test.
C6_HourMinuteAccepted ==
    (/\ pc # "start"
     /\ args.fecha_ini \in ValidDates /\ args.hora_ini = HourMinute
     /\ args.fecha_fin = None /\ args.hora_fin = None) =>
        /\ Msg("bad_format", 0) \notin stdout
        /\ start_dt.ok /\ end_dt.ok

\* C7: a run given an end date and no end time is not accepted: it issues no
\* query and does not end with status zero.
C7_EndDateAloneRefused ==
    (args.fecha_fin # None /\ args.hora_fin = None /\ pc # "start") =>
        /\ pc = "exited" /\ exit_status > 0
        /\ started = <<>>

JsonPaths == {OutJson, <<"A", ".", "J", "S", "O", "N">>}

CsvPaths == {OutCsv, <<"b", ".", "t", "a", "r", ".", "C", "s", "v">>}

\* C8: save_results creates or overwrites the file at the path exactly when
\* the suffix is .json, or is .csv and some group has a row (the suffix read
\* without regard to case); otherwise the file system is unchanged; it returns
\* normally either way, and never touches another path.
C8_WritesExactlyWhenSupported ==
    [][pc = "save_call" =>
        LET p == args.out
            due == p \in JsonPaths \/ (p \in CsvPaths /\ HasRows(salida_total))
        IN  /\ pc' = "saved"
            /\ due => fs'[p].kind = (IF p \in JsonPaths THEN "json" ELSE "csv")
            /\ ~due => fs' = fs
            /\ \A q \in Paths \ {p} : fs'[q] = fs[q]]_vars

C8_Witness ==
    /\ pc = "saved"
    /\ args.out = OutCsv
    /\ ~HasRows(salida_total) /\ salida_total # <<>>
    /\ fs[OutCsv] = OldFile
    /\ Msg("no_data_csv", 0) \in stdout

\* the rows of an aggregate with the group of each, in dict order then row order
RECURSIVE SourceRows(_)
SourceRows(data) ==
    IF data = <<>> THEN <<>>
    ELSE LET n == Len(data)
         IN  SourceRows(SubSeq(data, 1, n - 1))
             \o [k \in 1..Len(data[n].val) |->
                    [group |-> data[n].key, row |-> data[n].val[k]]]

Rank(f) == CHOOSE k \in 1..Len(FieldOrder) : FieldOrder[k] = f

\* C9: saving an aggregate with a row to a .csv path: the header is the sorted
\* union of the rows' field names and log_group; there is one record per row,
\* in group order then row order; its log_group cell is the row's group, its
\* cell for any other field is the row's value or empty when the row lacks the
\* field; and the aggregate is left as it was.
C9_CsvContent ==
    [][(pc = "save_call" /\ args.out \in CsvPaths /\ HasRows(salida_total)) =>
        LET f == fs'[args.out]
            src == SourceRows(salida_total)
            names == UNION {DOMAIN src[k].row : k \in 1..Len(src)}
        IN  /\ f.kind = "csv"
            /\ {f.header[j] : j \in 1..Len(f.header)} = names \cup {"log_group"}
            /\ \A i, j \in 1..Len(f.header) :
                  i < j => Rank(f.header[i]) < Rank(f.header[j])
            /\ Len(f.records) = Len(src)
            /\ \A k \in 1..Len(src) :
                  /\ Len(f.records[k]) = Len(f.header)
                  /\ \A j \in 1..Len(f.header) :
                        f.records[k][j] =
                            IF f.header[j] = "log_group" THEN src[k].group
                            ELSE IF f.header[j] \in DOMAIN src[k].row
                                 THEN src[k].row[f.header[j]]
                                 ELSE ""
            /\ salida_total' = salida_total]_vars

C9_Witness ==
    /\ pc = "saved"
    /\ args.out = OutCsv
    /\ Len(salida_total) = 2
    /\ fs[OutCsv].kind = "csv"
    /\ fs[OutCsv].header = <<"@message", "@ptr", "@timestamp", "log_group">>
    /\ Len(fs[OutCsv].records) = 3
    /\ fs[OutCsv].records[3] = <<"", "p2", "t2", LOG_GROUPS[3]>>

\* C10: a run of main ends, the service giving each query a terminal status
\* after at most MaxPolls others; and a response with any other status, known
\* to the program or not, only makes wait_results sleep and fetch again: the
\* call neither returns nor fails and no other group is started.
C10_EndsWhenQueriesEnd ==
    /\ <>(pc = "exited")
    /\ [][/\ (pc = "poll" /\ resp'.status \in OtherStatuses) =>
                /\ pc' = "sleep" /\ lg' = lg
                /\ outcome' = outcome /\ started' = started
                /\ salida_total' = salida_total
          /\ pc = "sleep" =>
                /\ pc' = "poll" /\ lg' = lg
                /\ outcome' = outcome /\ started' = started]_vars

C10_Witness ==
    /\ pc = "exited" /\ exit_status = 0
    /\ fetches = MaxPolls + 1 /\ sleeps = MaxPolls
    /\ resp.status = "Complete"
    /\ \A g \in Groups : qstate[g] = "Complete"

=============================================================================
